---- MODULE Spec2Model ----
(***************************************************************************)
(* The three chat scripts of langgraph-chatbot as one state machine:       *)
(*   basic_chatbot.py        START -> chatbot -> END, command-line loop    *)
(*   chatbot_with_tools.py   chatbot <-> tools, command-line loop          *)
(*   chatbot_with_memory.py  chatbot <-> tools, MemorySaver checkpointer,  *)
(*                           three scripted turns on threads "1","1","2"   *)
(* One action is one superstep of the compiled graph (a node plus the      *)
(* edges leaving it) or one pass through the head of the main loop.  The   *)
(* language model and the search tool are the environment: what they       *)
(* return is chosen nondeterministically.                                  *)
(***************************************************************************)
EXTENDS Integers, Sequences, FiniteSets, TLC

VARIABLES
    script,       \* which of the three scripts this process runs
    pc,           \* position of the main program
    run,          \* status of the current graph.stream call
    ctrl,         \* turn controller: the node the run waits for
    messages,     \* the run's State["messages"] channel
    step,         \* supersteps executed by the current run
    store,        \* MemorySaver: thread_id -> checkpointed messages
    thread,       \* thread_id of the current run's config
    snapshot,     \* snapshot1 / snapshot2 of the memory script
    user_input,   \* the main program's user_input variable
    nextId,       \* next fresh message id
    nextCall,     \* next fresh tool-call id
    turns,        \* graph.stream calls started so far
    fallbackRuns, \* executions of the except branch's demonstration turn
    inputFailed,  \* input() has raised
    farewell,     \* "Goodbye!" has been printed
    invocations,  \* llm.invoke calls made so far
    modelInput,   \* argument of the run's latest llm.invoke call, and its thread
    history,      \* per thread, the messages appended under it, in order
    base,         \* length of the log the current run resumed from
    error         \* the exception that ended the run, "none" without one

vars == <<script, pc, run, ctrl, messages, step, store, thread, snapshot,
          user_input, nextId, nextCall, turns, fallbackRuns, inputFailed,
          farewell, invocations, modelInput, history, base, error>>

----------------------------------------------------------------------------
(* Bounds of the model *)

\* lines read from the terminal by one process of a command-line script
MaxTurns == 2
\* tool calls one assistant message may carry
MaxToolCalls == 2
\* tool calls the model may request during one process
MaxCalls == 13
\* model invocations of a process, counted from its first, that may return
\* more than one tool call
MaxMultiCalls == 2

(* Program constants *)

\* graph.stream is called without a recursion_limit in its config, so the
\* framework's default applies: a run is aborted with GraphRecursionError
\* when it needs more than 25 supersteps.
RecursionLimit == 25

Scripts == {"basic", "tools", "memory"}
Threads == {"1", "2"}
NoThreadOne == "1"

NoThread == "none"

----------------------------------------------------------------------------
(* Text: a line is a sequence of one-character strings *)

Uppers == <<"A","B","C","D","E","F","G","H","I","J","K","L","M",
            "N","O","P","Q","R","S","T","U","V","W","X","Y","Z">>
Lowers == <<"a","b","c","d","e","f","g","h","i","j","k","l","m",
            "n","o","p","q","r","s","t","u","v","w","x","y","z">>

\* str.lower() on one character: an upper-case letter becomes its lower-case
\* letter, anything else stays
LowerChar(c) ==
    IF \E i \in 1..Len(Uppers) : Uppers[i] = c
    THEN Lowers[CHOOSE i \in 1..Len(Uppers) : Uppers[i] = c]
    ELSE c

\* user_input.lower()
PyLower(s) == [i \in 1..Len(s) |-> LowerChar(s[i])]

\* ["quit", "exit", "q"]
ExitTokens == { <<"q","u","i","t">>, <<"e","x","i","t">>, <<"q">> }

IsExitNoLower(s) == s \in ExitTokens

\* user_input.lower() in ["quit", "exit", "q"]
IsExit(s) == PyLower(s) \in ExitTokens

\* "What do you know about LangGraph?"
FallbackQuery ==
    <<"W","h","a","t"," ","d","o"," ","y","o","u"," ","k","n","o","w"," ",
      "a","b","o","u","t"," ","L","a","n","g","G","r","a","p","h","?">>

\* "Hi there! My name is Will."
FirstInput ==
    <<"H","i"," ","t","h","e","r","e","!"," ","M","y"," ","n","a","m","e",
      " ","i","s"," ","W","i","l","l",".">>

\* "Remember my name?"
SecondInput ==
    <<"R","e","m","e","m","b","e","r"," ","m","y"," ","n","a","m","e","?">>

\* the lines a user may type
Lines ==
    { <<"q">>, <<"Q">>, <<"q","u","i","t">>, <<"Q","u","I","t">>,
      <<"e","x","i","t">>, <<"E","X","I","T">>,
      <<>>, <<" ","q">>, <<"q","u","i","t"," ">>, <<"q","u">>, <<"h","i">> }

----------------------------------------------------------------------------
(* Messages *)

UserMessage(id, text) ==
    [id |-> id, role |-> "user", content |-> text,
     tool_calls |-> <<>>, tool_call_id |-> 0]

\* the assistant message llm.invoke returns: n tool calls with fresh ids
AIMessage(id, firstCall, n) ==
    [id |-> id, role |-> "assistant", content |-> <<>>,
     tool_calls |-> [i \in 1..n |-> firstCall + i - 1], tool_call_id |-> 0]

ToolMessage(id, call) ==
    [id |-> id, role |-> "tool", content |-> <<>>,
     tool_calls |-> <<>>, tool_call_id |-> call]

IndexOfId(log, id) ==
    IF \E i \in 1..Len(log) : log[i].id = id
    THEN CHOOSE i \in 1..Len(log) : log[i].id = id
    ELSE 0

add_messages_overwrite(left, right) == right

add_messages_prepend(left, right) == right \o left

\* the add_messages reducer of State.messages: a message whose id is already
\* in the log replaces that entry, any other message is appended
RECURSIVE add_messages(_, _)
add_messages(left, right) ==
    IF right = <<>> THEN left
    ELSE LET m == Head(right)
             i == IndexOfId(left, m.id)
         IN  add_messages(IF i = 0 THEN Append(left, m)
                          ELSE [left EXCEPT ![i] = m],
                          Tail(right))

----------------------------------------------------------------------------
(* The compiled graph *)

HasCheckpointer(t) == t \in Threads

GetStateShared(st, t) == IF HasCheckpointer(t) THEN st["1"] ELSE <<>>

GetStateEmpty(st, t) == <<>>

\* the state a run under thread t resumes from: the thread's checkpoint when
\* the graph is compiled with the MemorySaver, otherwise the empty state
GetState(st, t) == IF HasCheckpointer(t) THEN st[t] ELSE <<>>

\* the checkpoint written after the input and after every superstep
PutStateAll(st, t, log) ==
    IF HasCheckpointer(t) THEN [u \in Threads |-> log] ELSE st

PutState(st, t, log) ==
    IF HasCheckpointer(t) THEN [st EXCEPT ![t] = log] ELSE st

tools_condition_always(log) == "tools"

tools_condition_never(log) == "END"

\* langgraph.prebuilt.tools_condition: "tools" when the last message is an
\* assistant message carrying tool calls, END otherwise
tools_condition(log) ==
    IF /\ Len(log) > 0
       /\ log[Len(log)].role = "assistant"
       /\ Len(log[Len(log)].tool_calls) > 0
    THEN "tools"
    ELSE "END"

\* the edges leaving the chatbot node: add_edge("chatbot", END) in the basic
\* script, add_conditional_edges(..., tools_condition, ...) in the other two
AfterChatbotLoop(s, log) == "AWAITING_MODEL"

AfterChatbot(s, log) ==
    IF s = "basic" THEN "DONE"
    ELSE IF tools_condition(log) = "tools" THEN "AWAITING_TOOLS" ELSE "DONE"

\* add_edge("tools", "chatbot")
AfterTools == "AWAITING_MODEL"

ToolNodeFirstOnly(log, id) ==
    LET calls == log[Len(log)].tool_calls
    IN  IF calls = <<>> THEN <<>> ELSE << ToolMessage(id, calls[1]) >>

ToolNodeSameCall(log, id) ==
    LET calls == log[Len(log)].tool_calls
    IN  [i \in 1..Len(calls) |-> ToolMessage(id + i - 1, calls[1])]

\* ToolNode(tools=tools): one tool message per tool call of the last
\* assistant message, in the order of the calls, each carrying its call's id
ToolNode(log, id) ==
    LET calls == log[Len(log)].tool_calls
    IN  [i \in 1..Len(calls) |-> ToolMessage(id + i - 1, calls[i])]

\* tool calls the bound model may put in one message: llm.invoke of the
\* basic script has no tools bound
CallChoices(s) == IF s = "basic" THEN {0} ELSE 0..MaxToolCalls

\* assistant messages carrying tool calls among the messages after position b
ToolRequests(log, b) ==
    Cardinality({i \in (b + 1)..Len(log) :
                    log[i].role = "assistant" /\ log[i].tool_calls # <<>>})

\* the messages appended under thread t, each with the number of its turn
Record(h, t, k, new) ==
    IF t \in Threads
    THEN [h EXCEPT ![t] = @ \o [i \in 1..Len(new) |-> [turn |-> k, msg |-> new[i]]]]
    ELSE h

----------------------------------------------------------------------------------------------------------------------------------------
(* The main programs *)

\* the thread_id and input of the memory script's three graph.stream calls
MemoryThreads == <<"1", "1", "2">>
MemoryInputs == <<FirstInput, SecondInput, SecondInput>>

AfterFallbackLoop == "input"

\* the break that ends the except branch
AfterFallback == "exit"

\* where the main program continues when graph.stream is exhausted
AfterRun(s, p, n) ==
    IF s = "memory" THEN (IF n < Len(MemoryThreads) THEN "next" ELSE "snapshot")
    ELSE IF p = "fallback" THEN AfterFallback
    ELSE "input"

Init ==
    /\ script \in Scripts
    /\ pc = IF script = "memory" THEN "next" ELSE "input"
    /\ run = "none"
    /\ ctrl = "IDLE"
    /\ messages = <<>>
    /\ step = 0
    /\ store = [t \in Threads |-> <<>>]
    /\ thread = NoThread
    /\ snapshot = [t \in Threads |-> <<>>]
    /\ user_input = <<>>
    /\ nextId = 1
    /\ nextCall = 1
    /\ turns = 0
    /\ fallbackRuns = 0
    /\ inputFailed = FALSE
    /\ farewell = FALSE
    /\ invocations = 0
    /\ modelInput = [thread |-> NoThread, log |-> <<>>]
    /\ history = [t \in Threads |-> <<>>]
    /\ base = 0
    /\ error = "none"

\* graph.stream({"messages": [{"role": "user", "content": text}]}, config):
\* the input is applied to the state the run resumes from and the run enters
\* at the chatbot node (add_edge(START, "chatbot"))
StartRun(text, t) ==
    LET old == GetState(store, t)
        new == << UserMessage(nextId, text) >>
    IN  /\ user_input' = text
        /\ thread' = t
        /\ base' = Len(old)
        /\ messages' = add_messages(old, new)
        /\ store' = PutState(store, t, messages')
        /\ history' = Record(history, t, turns + 1, new)
        /\ nextId' = nextId + 1
        /\ turns' = turns + 1
        /\ run' = "active"
        /\ ctrl' = "AWAITING_MODEL"
        /\ step' = 0
        /\ error' = "none"

\* the except branch of the command-line loop: the demonstration turn
Fallback ==
    /\ pc' = "fallback"
    /\ fallbackRuns' = fallbackRuns + 1
    /\ StartRun(FallbackQuery, NoThread)

\* while True: try: user_input = input("User: ") ...
ReadLine ==
    /\ script # "memory"
    /\ pc = "input"
    /\ \/ /\ inputFailed' = TRUE
          /\ Fallback
          /\ UNCHANGED farewell
       \/ \E line \in Lines :
            IF IsExit(line)
            THEN /\ user_input' = line
                 /\ farewell' = TRUE
                 /\ pc' = "exit"
                 /\ UNCHANGED <<thread, base, messages, store, history, nextId,
                                turns, run, ctrl, step, error, fallbackRuns,
                                inputFailed>>
            ELSE /\ turns < MaxTurns
                 /\ StartRun(line, NoThread)
                 /\ pc' = "turn"
                 /\ UNCHANGED <<fallbackRuns, inputFailed, farewell>>
    /\ UNCHANGED <<script, snapshot, nextCall, invocations, modelInput>>

\* the memory script's next graph.stream call
MemoryTurn ==
    /\ script = "memory"
    /\ pc = "next"
    /\ StartRun(MemoryInputs[turns + 1], MemoryThreads[turns + 1])
    /\ pc' = "turn"
    /\ UNCHANGED <<script, snapshot, nextCall, fallbackRuns, inputFailed,
                   farewell, invocations, modelInput>>

\* snapshot1 = graph.get_state(thread 1); snapshot2 = graph.get_state(thread 2)
GetSnapshots ==
    /\ script = "memory"
    /\ pc = "snapshot"
    /\ snapshot' = [t \in Threads |-> GetState(store, t)]
    /\ pc' = "exit"
    /\ UNCHANGED <<script, run, ctrl, messages, step, store, thread, user_input,
                   nextId, nextCall, turns, fallbackRuns, inputFailed, farewell,
                   invocations, modelInput, history, base, error>>

\* the chatbot node: llm.invoke(state["messages"]) raises, or returns one
\* assistant message that the reducer adds to the log; then the edges
\* leaving the node are followed
ChatbotNode ==
    /\ run = "active"
    /\ ctrl = "AWAITING_MODEL"
    /\ step < RecursionLimit
    /\ invocations' = invocations + 1
    /\ modelInput' = [thread |-> thread, log |-> messages]
    /\ \/ /\ run' = "raised"
          /\ error' = "llm"
          /\ UNCHANGED <<messages, store, history, nextId, nextCall, step,
                         ctrl>>
       \/ \E n \in CallChoices(script) :
            LET new == << AIMessage(nextId, nextCall, n) >>
            IN  /\ nextCall + n - 1 <= MaxCalls
                /\ n > 1 => invocations < MaxMultiCalls
                /\ messages' = add_messages(messages, new)
                /\ store' = PutState(store, thread, messages')
                /\ history' = Record(history, thread, turns, new)
                /\ nextId' = nextId + 1
                /\ nextCall' = nextCall + n
                /\ step' = step + 1
                /\ ctrl' = AfterChatbot(script, messages')
                /\ run' = IF ctrl' = "DONE" THEN "done" ELSE run
                /\ UNCHANGED error
    /\ UNCHANGED <<script, pc, thread, snapshot, user_input, turns,
                   fallbackRuns, inputFailed, farewell, base>>

\* the tools node, then the edge back to the chatbot node
ToolsNode ==
    /\ run = "active"
    /\ ctrl = "AWAITING_TOOLS"
    /\ step < RecursionLimit
    /\ LET new == ToolNode(messages, nextId)
       IN  /\ messages' = add_messages(messages, new)
           /\ store' = PutState(store, thread, messages')
           /\ history' = Record(history, thread, turns, new)
           /\ nextId' = nextId + Len(new)
    /\ step' = step + 1
    /\ ctrl' = AfterTools
    /\ UNCHANGED <<script, pc, run, thread, snapshot, user_input, nextCall,
                   turns, fallbackRuns, inputFailed, farewell, invocations,
                   modelInput, base, error>>

\* GraphRecursionError: the run needs another superstep after RecursionLimit
RecursionError ==
    /\ run = "active"
    /\ step >= RecursionLimit
    /\ run' = "raised"
    /\ error' = "recursion"
    /\ UNCHANGED <<script, pc, ctrl, messages, step, store, thread, snapshot,
                   user_input, nextId, nextCall, turns, fallbackRuns,
                   inputFailed, farewell, invocations, modelInput, history,
                   base>>

\* graph.stream is exhausted: the run's state is dropped and the main program
\* goes on after the loop over the events
Return ==
    /\ run = "done"
    /\ pc \in {"turn", "fallback"}
    /\ pc' = AfterRun(script, pc, turns)
    /\ run' = "none"
    /\ ctrl' = "IDLE"
    /\ messages' = <<>>
    /\ step' = 0
    /\ thread' = NoThread
    /\ base' = 0
    /\ modelInput' = [thread |-> NoThread, log |-> <<>>]
    /\ UNCHANGED <<script, store, snapshot, user_input, nextId, nextCall,
                   turns, fallbackRuns, inputFailed, farewell, invocations,
                   history, error>>

\* the exception leaves graph.stream: inside the try of a command-line loop
\* the bare except runs the demonstration turn, anywhere else nothing
\* catches it and the process ends
Except ==
    /\ run = "raised"
    /\ pc \in {"turn", "fallback"}
    /\ IF script # "memory" /\ pc = "turn"
       THEN Fallback
       ELSE /\ pc' = "crashed"
            /\ UNCHANGED <<user_input, thread, base, messages, store, history,
                           nextId, turns, run, ctrl, step, error, fallbackRuns>>
    /\ UNCHANGED <<script, snapshot, nextCall, inputFailed, farewell,
                   invocations, modelInput>>

GraphStep == ChatbotNode \/ ToolsNode \/ RecursionError

Next == ReadLine \/ MemoryTurn \/ GetSnapshots \/ ChatbotNode \/ ToolsNode
        \/ RecursionError \/ Return \/ Except

Spec == Init /\ [][Next]_vars

\* the graph runs synchronously: a run that can take a step takes it
FairSpec == Spec /\ WF_vars(GraphStep)

----------------------------------------------------------------------------
(* Properties *)

Last(log) == log[Len(log)]

IsPrefix(a, b) == Len(a) <= Len(b) /\ SubSeq(b, 1, Len(a)) = a

Ids(log) == {log[i].id : i \in 1..Len(log)}

Msgs(h) == [i \in 1..Len(h) |-> h[i].msg]

\* the logs the program holds: the running channel and every checkpoint
Logs == {messages} \cup {store[t] : t \in Threads}

\* index of the most recent assistant message before position i, 0 if none
AssistantBefore(log, i) ==
    LET before == {j \in 1..(i - 1) : log[j].role = "assistant"}
    IN  IF before = {} THEN 0
        ELSE CHOOSE j \in before : \A k \in before : k <= j

\* tool calls of the log's assistant messages that no tool message answers
Unanswered(log) ==
    {c \in UNION {{log[i].tool_calls[k] : k \in 1..Len(log[i].tool_calls)} :
                    i \in 1..Len(log)} :
        ~ \E i \in 1..Len(log) : log[i].role = "tool" /\ log[i].tool_call_id = c}

\* C1: a step of a run that leaves AWAITING_MODEL or changes the log there is
\* a model invocation that appended exactly one assistant message, and it
\* goes to AWAITING_TOOLS when that message carries tool calls and to DONE
\* when it carries none.
C1_RoutesByLatestMessage ==
    [][ (/\ run = "active"
         /\ ctrl = "AWAITING_MODEL"
         /\ (ctrl' # ctrl \/ messages' # messages))
        => /\ Len(messages') = Len(messages) + 1
           /\ messages' = Append(messages, Last(messages'))
           /\ Last(messages').role = "assistant"
           /\ invocations' = invocations + 1
           /\ ctrl' \in {"AWAITING_TOOLS", "DONE"}
           /\ (ctrl' = "AWAITING_TOOLS" <=> Len(Last(messages').tool_calls) >= 1)
      ]_vars

C1_Witness ==
    /\ script = "tools"
    /\ run = "done"
    /\ ctrl = "DONE"
    /\ ToolRequests(messages, base) >= 1

RequestsAtLimit == (RecursionLimit + 1) \div 2

\* assistant messages among the messages after position b
Replies(log, b) ==
    Cardinality({i \in (b + 1)..Len(log) : log[i].role = "assistant"})

C3_ToolResponsesMatch ==
    \A log \in Logs :
        /\ \A i \in 1..Len(log) : log[i].role = "tool" =>
              LET j == AssistantBefore(log, i)
              IN  /\ j > 0
                  /\ Cardinality({k \in 1..Len(log[j].tool_calls) :
                        log[j].tool_calls[k] = log[i].tool_call_id}) = 1
        /\ LET answers == {i \in 1..Len(log) : log[i].role = "tool"}
           IN  Cardinality({log[i].tool_call_id : i \in answers})
                  = Cardinality(answers)

C3_Witness ==
    \E i \in 1..Len(messages) :
        /\ messages[i].role = "assistant"
        /\ Len(messages[i].tool_calls) = 2
        /\ Len(messages) >= i + 2
        /\ messages[i + 1].role = "tool"
        /\ messages[i + 2].role = "tool"

\* C4: every thread's stored log only grows by appending, a run's log only
\* grows by appending while the run lasts, and a run resumed under a thread
\* starts from that thread's stored log.
C4_AppendOnly ==
    [][ /\ \A t \in Threads : IsPrefix(store[t], store'[t])
        /\ (run = "active" /\ turns' = turns) => IsPrefix(messages, messages')
        /\ (turns' # turns /\ thread' \in Threads)
              => IsPrefix(store[thread'], messages')
      ]_vars

C4_Witness ==
    /\ script = "memory"
    /\ turns = 2
    /\ run = "done"
    /\ base >= 4
    /\ Len(store["1"]) > base + 2

\* C5: a message appended under one thread is in no log of another thread:
\* not in its checkpoint, not in its snapshot, not in the log of a run under
\* it, and not in the log the model was invoked on under it.
C5_SessionIsolation ==
    \A t \in Threads : \A u \in Threads \ {t} :
        LET mine == Ids(Msgs(history[t]))
        IN  /\ mine \cap Ids(store[u]) = {}
            /\ mine \cap Ids(snapshot[u]) = {}
            /\ thread = u => mine \cap Ids(messages) = {}
            /\ modelInput.thread = u => mine \cap Ids(modelInput.log) = {}

C5_Witness ==
    /\ script = "memory"
    /\ run = "done"
    /\ thread = "2"
    /\ modelInput.thread = "2"
    /\ Len(modelInput.log) >= 3
    /\ Len(store["1"]) >= 4
    /\ Len(store["2"]) >= 4

\* the messages of h appended in turns before turn k
Earlier(h, k) ==
    LET keep(e) == e.turn < k
    IN  Msgs(SelectSeq(h, keep))

\* C6: under the session store every model invocation gets all messages
\* appended under the run's thread so far, in order; the first invocation of
\* a turn gets the messages of the thread's earlier turns followed by the new
\* user message alone, which is the whole log for a thread not used before.
C6_ResumesStoredLog ==
    [][ (invocations' # invocations /\ thread \in Threads)
        => /\ modelInput'.log = Msgs(history[thread])
           /\ modelInput'.thread = thread
           /\ step = 0 =>
                LET old == Earlier(history[thread], turns)
                    log == modelInput'.log
                IN  /\ Len(log) = Len(old) + 1
                    /\ SubSeq(log, 1, Len(old)) = old
                    /\ Last(log).role = "user"
                    /\ Last(log).content = MemoryInputs[turns]
                    /\ (\A k \in 1..(turns - 1) : MemoryThreads[k] # thread)
                          => Len(log) = 1
      ]_vars

C6_Witness ==
    /\ script = "memory"
    /\ turns = 2
    /\ step = 1
    /\ modelInput.thread = "1"
    /\ Len(modelInput.log) >= 5
    /\ modelInput.log[1].content = FirstInput
    /\ Last(modelInput.log).content = SecondInput

\* C7: a step of a run in AWAITING_TOOLS keeps the controller there with the
\* log untouched or moves it to AWAITING_MODEL, and then no tool call of the
\* log is left without a tool message; no model invocation gets a log with
\* an unanswered tool call.
C7_ToolsReturnToModelWhenAnswered ==
    [][ /\ (run = "active" /\ ctrl = "AWAITING_TOOLS")
           => /\ ctrl' \in {"AWAITING_TOOLS", "AWAITING_MODEL"}
              /\ ctrl' = "AWAITING_TOOLS" => messages' = messages
              /\ ctrl' = "AWAITING_MODEL" =>
                    /\ Unanswered(messages') = {}
                    /\ IsPrefix(messages, messages')
                    /\ Len(messages') =
                          Len(messages) + Len(Last(messages).tool_calls)
        /\ invocations' # invocations => Unanswered(modelInput'.log) = {}
      ]_vars

C7_Witness ==
    /\ run = "active"
    /\ ctrl = "AWAITING_TOOLS"
    /\ step >= 3
    /\ \E i \in 1..Len(modelInput.log) : Len(modelInput.log[i].tool_calls) = 2

\* the upper-case letter of a lower-case letter
UpperOf(c) == Uppers[CHOOSE i \in 1..Len(Lowers) : Lowers[i] = c]

\* s is the word w with each letter in either case
SpellsIgnoringCase(s, w) ==
    /\ Len(s) = Len(w)
    /\ \A i \in 1..Len(w) : s[i] = w[i] \/ s[i] = UpperOf(w[i])

SaysExit(s) ==
    \/ SpellsIgnoringCase(s, <<"q","u","i","t">>)
    \/ SpellsIgnoringCase(s, <<"e","x","i","t">>)
    \/ SpellsIgnoringCase(s, <<"q">>)

\* C8: a line read by the command-line loop that spells quit, exit or q in
\* any letter case ends the process with the farewell and starts no turn and
\* no model invocation; any other line starts a turn whose log is that line
\* as the user message; after the farewell nothing runs.
C8_ExitTokens ==
    [][ /\ (pc = "input" /\ pc' # "input" /\ inputFailed' = inputFailed)
           => IF SaysExit(user_input')
              THEN /\ pc' = "exit"
                   /\ farewell'
                   /\ run' = "none"
                   /\ turns' = turns
                   /\ invocations' = invocations
              ELSE /\ pc' = "turn"
                   /\ ~farewell'
                   /\ run' = "active"
                   /\ ctrl' = "AWAITING_MODEL"
                   /\ turns' = turns + 1
                   /\ Len(messages') = 1
                   /\ messages'[1].role = "user"
                   /\ messages'[1].content = user_input'
        /\ farewell => (pc' = "exit" /\ invocations' = invocations)
      ]_vars

C8_Witness ==
    /\ pc = "exit"
    /\ farewell
    /\ user_input = <<"Q","u","I","t">>
    /\ turns = 1
    /\ invocations >= 1

\* C9 as claimed: an exception that ends a turn of the command-line loop
\* ends that turn only: the loop goes back to reading input, and no run and
\* no model invocation is started for it.
C9_FailureEndsTurnOnly ==
    [][ (script # "memory" /\ pc = "turn" /\ run = "raised")
        => /\ pc' \in {"turn", "input"}
           /\ run' # "active"
           /\ turns' = turns
      ]_vars

\* C10: once input() has raised, the demonstration turn is started in that
\* step with the hardcoded query as its only message, no other turn is
\* started and no line is read afterwards, and the demonstration turn runs
\* at most once in a process.
C10_SingleFallbackTurn ==
    [][ /\ (inputFailed' /\ ~inputFailed)
           => /\ pc' = "fallback"
              /\ run' = "active"
              /\ turns' = turns + 1
              /\ messages' = << UserMessage(nextId, FallbackQuery) >>
        /\ inputFailed
           => /\ turns' = turns
              /\ pc' \in {"fallback", "exit", "crashed"}
              /\ (pc = "fallback" /\ run = "done") => pc' = "exit"
        /\ fallbackRuns' <= 1
        /\ fallbackRuns' # fallbackRuns => pc' = "fallback"
      ]_vars

C10_Witness ==
    /\ inputFailed
    /\ pc = "exit"
    /\ fallbackRuns = 1
    /\ turns = 2
    /\ invocations >= 2

\* C11: a model invocation that returns puts exactly one new assistant
\* message, with a fresh id, at the end of the run's log and of its thread's
\* checkpoint, after all the messages it was invoked on; it changes no
\* earlier message and no other thread's checkpoint.  One that raises changes
\* no log at all.
C11_ChatbotAppendsOneMessage ==
    [][ invocations' # invocations
        => /\ invocations' = invocations + 1
           /\ modelInput'.log = messages
           /\ \A t \in Threads \ {thread} : store'[t] = store[t]
           /\ IF run' = "raised"
              THEN messages' = messages /\ store' = store
              ELSE /\ Len(messages') = Len(messages) + 1
                   /\ SubSeq(messages', 1, Len(messages)) = messages
                   /\ Last(messages').role = "assistant"
                   /\ Last(messages').id \notin Ids(messages)
                   /\ thread \in Threads => store'[thread] = messages'
      ]_vars

C11_Witness ==
    /\ script = "memory"
    /\ thread = "2"
    /\ step = 3
    /\ Len(messages) >= 4
    /\ Last(messages).role = "assistant"
    /\ Len(store["1"]) >= 6

\* C12: in the scripts compiled without a checkpointer (basic and tools)
\* every turn, the demonstration turn included, starts from a log that holds
\* only that turn's user message, under a fresh id; the log the model is
\* invoked on begins with that message, holds no other user message and no
\* message created before the turn started, and nothing is ever stored.
C12_TurnStartsFromOwnMessage ==
    [][ script # "memory"
        => /\ turns' # turns
              => /\ messages' = << UserMessage(nextId, user_input') >>
                 /\ base' = 0
                 /\ thread' = NoThread
           /\ invocations' # invocations
              => /\ modelInput'.thread = NoThread
                 /\ Len(modelInput'.log) >= 1
                 /\ modelInput'.log[1].role = "user"
                 /\ modelInput'.log[1].content = user_input
                 /\ \A i \in 2..Len(modelInput'.log) :
                        /\ modelInput'.log[i].role # "user"
                        /\ modelInput'.log[i].id > modelInput'.log[1].id
                 /\ \A h \in 1..(modelInput'.log[1].id - 1) :
                        h \notin Ids(modelInput'.log)
           /\ \A t \in Threads : store'[t] = << >> /\ history'[t] = << >>
      ]_vars

C12_Witness ==
    /\ script = "tools"
    /\ pc = "turn"
    /\ turns = 2
    /\ fallbackRuns = 0
    /\ invocations >= 3
    /\ modelInput.thread = NoThread
    /\ Len(modelInput.log) = 1
    /\ modelInput.log[1].id > 1

\* C13: in the basic graph a turn never enters tool dispatch and invokes the
\* model exactly once: no invocation has happened while the turn is still
\* running, one has when it is over.  A turn that completes has taken one
\* step and its log is the user message followed by one assistant message
\* without tool calls.  Every started turn ends.
C13_BasicTurnInvokesModelOnce ==
    /\ [](script = "basic"
          => /\ ctrl # "AWAITING_TOOLS"
             /\ run = "active" => invocations = turns - 1 /\ step = 0
             /\ run \in {"done", "raised", "none"} => invocations = turns
             /\ run = "done"
                => /\ ctrl = "DONE"
                   /\ step = 1
                   /\ Len(messages) = 2
                   /\ messages[1] = UserMessage(messages[1].id, user_input)
                   /\ messages[2] = AIMessage(messages[2].id, nextCall, 0))
    /\ (script = "basic" /\ run = "active") ~> (run \in {"done", "raised"})

C13_Witness ==
    /\ script = "basic"
    /\ run = "done"
    /\ turns = 2
    /\ invocations = 2
    /\ fallbackRuns = 0
    /\ Len(messages) = 2

\* C14: a step of a turn run under one thread_id changes the checkpoint of
\* no other thread_id.  In the memory script the log stored for thread "1"
\* is, from the start of the thread "2" turn on, the log the two thread "1"
\* turns left; it holds no message of the thread "2" turn, and it is what
\* get_state returns for thread "1" after that turn.
C14_OtherThreadsUnchanged ==
    /\ [][ \A u \in Threads : u # thread' => store'[u] = store[u] ]_vars
    /\ [][ (script = "memory" /\ turns' = 3) => store'["1"] = store["1"] ]_vars
    /\ [](script = "memory" /\ turns = 3
          => /\ store["1"] = Earlier(history["1"], 3)
             /\ Ids(store["1"]) \cap Ids(store["2"]) = {}
             /\ pc = "exit" => snapshot["1"] = store["1"])

C14_Witness ==
    /\ script = "memory"
    /\ pc = "exit"
    /\ turns = 3
    /\ Len(snapshot["1"]) >= 6
    /\ Len(snapshot["2"]) >= 4
    /\ snapshot["1"][1].content = FirstInput
    /\ snapshot["2"][1].content = SecondInput

====
